---- MODULE Spec2Model ----
(***************************************************************************)
(* Model of tools/poetryenv/patch_device_name.py: the firmware device-name *)
(* patcher.  Byte strings are sequences of integers 0..255; offsets are    *)
(* 0-based as in the source, so byte i of a buffer is buf[i + 1].          *)
(***************************************************************************)
EXTENDS Integers, Sequences, FiniteSets, TLC

(***************************************************************************)
(* Bounds of the model.                                                    *)
(***************************************************************************)
MaxLen == 3          \* longest generated image without the template prefix
MaxContent == 2      \* longest content after <len> <type> in a template image
MaxNameLen == 2      \* longest generated --name
MaxNeedleLen == 2    \* longest generated --needle
MaxRuns == 2         \* invocations in a sequence of runs on one firmware path

(***************************************************************************)
(* Byte strings used as inputs.                                            *)
(***************************************************************************)
SeqsUpTo(S, n) == UNION { [1..k -> S] : k \in 0..n }

\* prefix = bytes([0x02, 0x01, 0x06, 0x02, 0x0a, 0xeb, 0x03, 0x03, 0xFF, 0x00])
prefix == <<2, 1, 6, 2, 10, 235, 3, 3, 255, 0>>

DefaultNeedle == <<66, 76, 69, 67, 84, 70>>      \* "BLECTF"
NameNEW == <<78, 69, 87>>                        \* "NEW"
OLDNAM == <<79, 76, 68, 78, 65, 77>>             \* "OLDNAM"

GenBytes == {0, 65, 66}
GenImages == SeqsUpTo(GenBytes, MaxLen)

\* images built around the advertising template: <pre> prefix <len> <type> <content>
AdvPres == { <<>>, <<65>>, prefix \o <<2, 8>>, prefix \o <<1, 9>> }
AdvLens == {0, 1, 2, 3}
AdvTypes == {9, 8}
AdvImages ==
    { p \o prefix \o <<l, t>> \o c :
        p \in AdvPres, l \in AdvLens, t \in AdvTypes,
        c \in SeqsUpTo({67}, MaxContent) }

\* the images of the scenarios
ScenarioAdv == <<170>> \o prefix \o <<6, 9>> \o OLDNAM \o <<187>>
ScenarioNeedle == <<66>> \o DefaultNeedle \o <<0, 0>>
ScenarioTwoNeedles == DefaultNeedle \o <<1>> \o DefaultNeedle
ScenarioBoth == <<65, 65>> \o prefix \o <<3, 9, 66, 66, 7>>
ScenarioAdvEnd == prefix \o <<6, 9>> \o OLDNAM
\* the field of the scenario after an accepted field of capacity 0, or 3
ScenarioAdvAfterEmpty == prefix \o <<1, 9>> \o ScenarioAdvEnd
ScenarioAdvAfterField == prefix \o <<4, 9, 88, 89, 90>> \o ScenarioAdvEnd
ScenarioImages ==
    { ScenarioAdv, ScenarioAdvEnd, ScenarioAdvAfterEmpty, ScenarioAdvAfterField,
      ScenarioNeedle, ScenarioTwoNeedles, ScenarioBoth }

Images == GenImages \cup AdvImages \cup ScenarioImages
Needles == SeqsUpTo({65}, MaxNeedleLen) \cup { DefaultNeedle }
Names == SeqsUpTo({66}, MaxNameLen) \cup { <<65>>, NameNEW }

\* inputs of the runs that are repeated on one firmware path
RunImages == { <<65, 65, 9, 65, 65>>, <<9>> \o prefix \o <<3, 9, 66, 66, 7>>,
               ScenarioBoth }
RunNeedles == { <<65, 65>> }
RunNames == { <<66>>, <<65, 65>>, <<66, 66, 66>> }

(***************************************************************************)
(* bytes.find(sub, start): lowest index >= start where sub occurs, or -1.  *)
(***************************************************************************)
MatchAt(data, sub, i) ==
    /\ i + Len(sub) <= Len(data)
    /\ \A k \in 1..Len(sub) : data[i + k] = sub[k]

SetMin(S) == CHOOSE x \in S : \A y \in S : x <= y

bytes_find(data, sub, start) ==
    LET hits == { i \in start..Len(data) : MatchAt(data, sub, i) }
    IN  IF hits = {} THEN -1 ELSE SetMin(hits)

(***************************************************************************)
(* find_all(data, needle)                                                  *)
(***************************************************************************)
RECURSIVE find_all_loop(_, _, _, _)
find_all_loop(data, needle, i, offs) ==
    IF i = -1 THEN offs
    ELSE find_all_loop(data, needle, bytes_find(data, needle, i + 1), Append(offs, i))

\* variant: the search restarts after the whole match, i + len(needle)
RECURSIVE find_all_skip(_, _, _, _)
find_all_skip(data, needle, i, offs) ==
    IF i = -1 THEN offs
    ELSE find_all_skip(data, needle,
                       bytes_find(data, needle,
                                  i + (IF Len(needle) = 0 THEN 1 ELSE Len(needle))),
                       Append(offs, i))
find_all_nonoverlapping(data, needle) ==
    find_all_skip(data, needle, bytes_find(data, needle, 0), <<>>)

find_all(data, needle) ==
    find_all_loop(data, needle, bytes_find(data, needle, 0), <<>>)

(***************************************************************************)
(* find_adv_name_field(data): <<name_offset, name_len>>, or None.          *)
(***************************************************************************)
None == <<>>

\* variant: the field is not checked against the end of the data
AdvAcceptsNoBound(data, pos) ==
    /\ pos + 2 <= Len(data)
    /\ data[pos + 2] = 9
    /\ data[pos + 1] >= 1

\* variant: L >= 0
AdvAcceptsZero(data, pos) ==
    /\ pos + 2 <= Len(data)
    /\ data[pos + 2] = 9
    /\ data[pos + 1] >= 0
    /\ pos + 2 + (data[pos + 1] - 1) <= Len(data)

AdvAccepts(data, pos) ==
    /\ pos + 2 <= Len(data)
    /\ data[pos + 2] = 9
    /\ data[pos + 1] >= 1
    /\ pos + 2 + (data[pos + 1] - 1) <= Len(data)

\* variant: only the first occurrence of the prefix is examined
find_adv_first_only(data, i) ==
    IF i = -1 THEN None
    ELSE LET pos == i + Len(prefix)
         IN  IF AdvAccepts(data, pos)
             THEN <<pos + 2, data[pos + 1] - 1>>
             ELSE None

RECURSIVE find_adv_loop(_, _)
find_adv_loop(data, i) ==
    IF i = -1 THEN None
    ELSE LET pos == i + Len(prefix)
         IN  IF AdvAccepts(data, pos)
             THEN <<pos + 2, data[pos + 1] - 1>>
             ELSE find_adv_loop(data, bytes_find(data, prefix, i + 1))

\* variant: the length byte taken as the capacity (name_len = L)
find_adv_name_field_L(data) ==
    LET r == find_adv_loop(data, bytes_find(data, prefix, 0))
    IN  IF r = None THEN None ELSE <<r[1], r[2] + 1>>

\* variant: the type byte is not checked
RECURSIVE find_adv_any_type(_, _)
find_adv_any_type(data, i) ==
    IF i = -1 THEN None
    ELSE LET pos == i + Len(prefix)
         IN  IF /\ pos + 2 <= Len(data)
                /\ data[pos + 1] >= 1
                /\ pos + 2 + (data[pos + 1] - 1) <= Len(data)
             THEN <<pos + 2, data[pos + 1] - 1>>
             ELSE find_adv_any_type(data, bytes_find(data, prefix, i + 1))
find_adv_name_field_T(data) == find_adv_any_type(data, bytes_find(data, prefix, 0))

find_adv_name_field(data) == find_adv_loop(data, bytes_find(data, prefix, 0))

(***************************************************************************)
(* The buffer edit of main: a slice assignment followed by the NUL padding *)
(* loop.                                                                   *)
(***************************************************************************)
Min2(a, b) == IF a <= b THEN a ELSE b

\* variant: buf[lo:lo] = val, an insertion
SliceAssignInsert(buf, lo, hi, val) ==
    LET l == Min2(lo, Len(buf))
    IN  SubSeq(buf, 1, l) \o val \o SubSeq(buf, l + 1, Len(buf))

\* variant: buf[lo:] = val, the rest of the buffer is dropped
SliceAssignTail(buf, lo, hi, val) ==
    SubSeq(buf, 1, Min2(lo, Len(buf))) \o val

\* buf[lo:hi] = val on a bytearray (0 <= lo <= hi)
SliceAssign(buf, lo, hi, val) ==
    LET l == Min2(lo, Len(buf))
        h == Min2(hi, Len(buf))
    IN  SubSeq(buf, 1, l) \o val \o SubSeq(buf, h + 1, Len(buf))

\* variant: range(from, to + 1)
NulPadOver(buf, from, to) ==
    [i \in 1..Len(buf) |-> IF i - 1 >= from /\ i - 1 <= to THEN 0 ELSE buf[i]]

\* variant: range(from + 1, to)
NulPadLate(buf, from, to) ==
    [i \in 1..Len(buf) |-> IF i - 1 > from /\ i - 1 < to THEN 0 ELSE buf[i]]

\* for i in range(from, to): buf[i] = 0x00
RECURSIVE NulPad(_, _, _)
NulPad(buf, from, to) ==
    IF from >= to THEN buf
    ELSE NulPad([buf EXCEPT ![from + 1] = 0], from + 1, to)

ApplyPatch(buf, off, newname, cap) ==
    NulPad(SliceAssign(buf, off, off + Len(newname), newname),
           off + Len(newname), off + cap)

(***************************************************************************)
(* The files.  The firmware path, its backup path                          *)
(* firmware.with_suffix(firmware.suffix + '.bak'), and one other path that *)
(* --out can name.                                                         *)
(***************************************************************************)
FW == "firmware.bin"
BAK == "firmware.bin.bak"
ALT == "patched.bin"
Paths == { FW, BAK, ALT }

NoOut == "--out absent"
Outs == { NoOut, ALT, BAK }

Absent == [exists |-> FALSE, bytes |-> <<>>]
File(b) == [exists |-> TRUE, bytes |-> b]

\* a backup left by an earlier use of the tool
OldBackup == <<66, 65, 75>>

NoPrev == [ok |-> FALSE, run |-> 0, needle |-> <<>>, name |-> <<>>,
           output |-> <<>>, origin |-> "none"]

VARIABLES
    fs,          \* path -> file
    pc,          \* position of the current invocation of main
    exitCode,    \* exit status of the last finished invocation, -1 if none
    needle,      \* args.needle.encode('ascii')
    newname,     \* args.name.encode('ascii')
    out,         \* args.out
    data,        \* firmware.read_bytes()
    occ,         \* find_all(data, needle)
    adv,         \* find_adv_name_field(data), when it was called
    advCalled,   \* whether find_adv_name_field was called in this invocation
    offset,      \* offset / name_offset
    capacity,    \* len(needle) / name_max
    origin,      \* which branch chose the target
    patched,     \* the bytearray being edited
    trace,       \* the steps this invocation has completed
    runs,        \* number of invocations started
    orig,        \* the files before the first invocation
    fsStart,     \* the files when the current invocation started
    prev,        \* the last successful invocation
    bakCopies,   \* number of times shutil.copy2 created the backup
    scan_i,      \* i of the scanner whose loop is running (find_all, find_adv_name_field)
    scan_offs    \* offs of find_all while its loop is running

vars == << fs, pc, exitCode, needle, newname, out, data, occ, adv, advCalled,
           offset, capacity, origin, patched, trace, runs, orig, fsStart,
           prev, bakCopies, scan_i, scan_offs >>

\* the locals of the scanner loops
scan == << scan_i, scan_offs >>

locals == << data, occ, adv, advCalled, offset, capacity, origin, patched >>

InitWith(imgs) ==
    /\ \E f \in { File(b) : b \in imgs } \cup { Absent },
          b \in { Absent, File(OldBackup) } :
            fs = [p \in Paths |-> IF p = FW THEN f ELSE IF p = BAK THEN b ELSE Absent]
    /\ pc = "idle"
    /\ exitCode = -1
    /\ needle = <<>> /\ newname = <<>> /\ out = NoOut
    /\ data = <<>> /\ occ = <<>> /\ adv = None /\ advCalled = FALSE
    /\ offset = 0 /\ capacity = 0 /\ origin = "none" /\ patched = <<>>
    /\ trace = <<>>
    /\ runs = 0
    /\ orig = fs
    /\ fsStart = fs
    /\ prev = NoPrev
    /\ bakCopies = 0
    /\ scan_i = -1 /\ scan_offs = <<>>

Init == InitWith(Images)
InitRuns == InitWith(RunImages)

\* variant: --out is ignored
outpathIgnoresOut == FW

\* outpath = args.out or firmware
outpath == IF out = NoOut THEN FW ELSE out

(***************************************************************************)
(* main, lines 56-70: parse the arguments, check that the firmware exists, *)
(* read it.                                                                *)
(***************************************************************************)
\* variant: no firmware.exists() check, read_bytes raises and the status is 1
StartNoCheck(n, nm, o, limit) ==
    /\ pc \in { "idle", "done", "killed", "failed" }
    /\ runs < limit
    /\ runs' = runs + 1
    /\ needle' = n /\ newname' = nm /\ out' = o
    /\ fsStart' = fs
    /\ occ' = <<>> /\ adv' = None /\ advCalled' = FALSE
    /\ offset' = 0 /\ capacity' = 0 /\ origin' = "none" /\ patched' = <<>>
    /\ IF ~fs[FW].exists
       THEN /\ pc' = "done" /\ exitCode' = 1
            /\ data' = <<>> /\ trace' = <<>>
       ELSE /\ pc' = "loaded" /\ exitCode' = -1
            /\ data' = fs[FW].bytes /\ trace' = <<"Loaded">>
    /\ UNCHANGED << fs, orig, scan, prev, bakCopies >>

Start(n, nm, o, limit) ==
    /\ pc \in { "idle", "done", "killed", "failed" }
    /\ runs < limit
    /\ runs' = runs + 1
    /\ needle' = n /\ newname' = nm /\ out' = o
    /\ fsStart' = fs
    /\ occ' = <<>> /\ adv' = None /\ advCalled' = FALSE
    /\ offset' = 0 /\ capacity' = 0 /\ origin' = "none" /\ patched' = <<>>
    /\ IF ~fs[FW].exists
       THEN /\ pc' = "done" /\ exitCode' = 2
            /\ data' = <<>> /\ trace' = <<>>
       ELSE /\ pc' = "loaded" /\ exitCode' = -1
            /\ data' = fs[FW].bytes /\ trace' = <<"Loaded">>
    /\ UNCHANGED << fs, orig, scan, prev, bakCopies >>

(***************************************************************************)
(* main, lines 72-75 and 96-101: choose the target.                        *)
(***************************************************************************)
\* variant: offset = occ[-1], the last occurrence
PlanLastOccurrence ==
    /\ pc = "loaded"
    /\ LET o == find_all(data, needle)
           a == find_adv_name_field(data)
       IN  /\ occ' = o
           /\ patched' = data
           /\ IF o # <<>>
              THEN /\ offset' = o[Len(o)] /\ capacity' = Len(needle)
                   /\ origin' = "ExactNeedle"
                   /\ adv' = None /\ advCalled' = FALSE
                   /\ pc' = "planned" /\ trace' = Append(trace, "Planned")
                   /\ UNCHANGED exitCode
              ELSE /\ adv' = a /\ advCalled' = TRUE
                   /\ IF a = None
                      THEN /\ pc' = "done" /\ exitCode' = 3
                           /\ UNCHANGED << offset, capacity, origin, trace >>
                      ELSE /\ offset' = a[1] /\ capacity' = a[2]
                           /\ origin' = "AdvertisingField"
                           /\ pc' = "planned" /\ trace' = Append(trace, "Planned")
                           /\ UNCHANGED exitCode
    /\ UNCHANGED << fs, needle, newname, out, data, runs, orig, scan, fsStart, prev,
                    bakCopies >>

\* variant: the advertising field is looked for first, the needle second
PlanAdvFirst ==
    /\ pc = "loaded"
    /\ LET o == find_all(data, needle)
           a == find_adv_name_field(data)
       IN  /\ occ' = o
           /\ patched' = data
           /\ adv' = a /\ advCalled' = TRUE
           /\ IF a # None
              THEN /\ offset' = a[1] /\ capacity' = a[2]
                   /\ origin' = "AdvertisingField"
                   /\ pc' = "planned" /\ trace' = Append(trace, "Planned")
                   /\ UNCHANGED exitCode
              ELSE IF o # <<>>
                   THEN /\ offset' = o[1] /\ capacity' = Len(needle)
                        /\ origin' = "ExactNeedle"
                        /\ pc' = "planned" /\ trace' = Append(trace, "Planned")
                        /\ UNCHANGED exitCode
                   ELSE /\ pc' = "done" /\ exitCode' = 3
                        /\ UNCHANGED << offset, capacity, origin, trace >>
    /\ UNCHANGED << fs, needle, newname, out, data, runs, orig, scan, fsStart, prev,
                    bakCopies >>

Plan ==
    /\ pc = "loaded"
    /\ LET o == find_all(data, needle)
           a == find_adv_name_field(data)
       IN  /\ occ' = o
           /\ patched' = data
           /\ IF o # <<>>
              THEN /\ offset' = o[1] /\ capacity' = Len(needle)
                   /\ origin' = "ExactNeedle"
                   /\ adv' = None /\ advCalled' = FALSE
                   /\ pc' = "planned" /\ trace' = Append(trace, "Planned")
                   /\ UNCHANGED exitCode
              ELSE /\ adv' = a /\ advCalled' = TRUE
                   /\ IF a = None
                      THEN /\ pc' = "done" /\ exitCode' = 3
                           /\ UNCHANGED << offset, capacity, origin, trace >>
                      ELSE /\ offset' = a[1] /\ capacity' = a[2]
                           /\ origin' = "AdvertisingField"
                           /\ pc' = "planned" /\ trace' = Append(trace, "Planned")
                           /\ UNCHANGED exitCode
    /\ UNCHANGED << fs, needle, newname, out, data, runs, orig, scan, fsStart, prev,
                    bakCopies >>

(***************************************************************************)
(* main, lines 76-78 and 102-104: the length check.                        *)
(***************************************************************************)
\* variant: len(newname) > capacity + 1
ValidateLoose ==
    /\ pc = "planned"
    /\ IF Len(newname) > capacity + 1
       THEN /\ pc' = "done" /\ exitCode' = 4 /\ UNCHANGED trace
       ELSE /\ pc' = "validated" /\ trace' = Append(trace, "Validated")
            /\ UNCHANGED exitCode
    /\ UNCHANGED << fs, needle, newname, out, locals, runs, orig, scan, fsStart,
                    prev, bakCopies >>

Validate ==
    /\ pc = "planned"
    /\ IF Len(newname) > capacity
       THEN /\ pc' = "done" /\ exitCode' = 4 /\ UNCHANGED trace
       ELSE /\ pc' = "validated" /\ trace' = Append(trace, "Validated")
            /\ UNCHANGED exitCode
    /\ UNCHANGED << fs, needle, newname, out, locals, runs, orig, scan, fsStart,
                    prev, bakCopies >>

(***************************************************************************)
(* main, lines 89-94 and 112-115: edit the buffer.                         *)
(***************************************************************************)
\* variant: the length byte of the field is set to len(newname) + 1
PatchSetsLength ==
    /\ pc = "validated"
    /\ patched' = IF origin = "AdvertisingField"
                  THEN [ApplyPatch(patched, offset, newname, capacity)
                            EXCEPT ![offset - 1] = Len(newname) + 1]
                  ELSE ApplyPatch(patched, offset, newname, capacity)
    /\ pc' = "patched" /\ trace' = Append(trace, "Patched")
    /\ UNCHANGED << fs, exitCode, needle, newname, out, data, occ, adv,
                    advCalled, offset, capacity, origin, runs, orig, scan, fsStart,
                    prev, bakCopies >>

\* variant: the backup step is left out
PatchNoBackup ==
    /\ pc = "validated"
    /\ patched' = ApplyPatch(patched, offset, newname, capacity)
    /\ pc' = "backedup" /\ trace' = Append(trace, "Patched")
    /\ UNCHANGED << fs, exitCode, needle, newname, out, data, occ, adv,
                    advCalled, offset, capacity, origin, runs, orig, scan, fsStart,
                    prev, bakCopies >>

Patch ==
    /\ pc = "validated"
    /\ patched' = ApplyPatch(patched, offset, newname, capacity)
    /\ pc' = "patched" /\ trace' = Append(trace, "Patched")
    /\ UNCHANGED << fs, exitCode, needle, newname, out, data, occ, adv,
                    advCalled, offset, capacity, origin, runs, orig, scan, fsStart,
                    prev, bakCopies >>

(***************************************************************************)
(* main, lines 119-123: the backup.                                        *)
(***************************************************************************)
Backup ==
    /\ pc = "patched"
    /\ IF ~fs[BAK].exists
       THEN /\ fs' = [fs EXCEPT ![BAK] = fs[FW]]
            /\ bakCopies' = bakCopies + 1
       ELSE UNCHANGED << fs, bakCopies >>
    /\ pc' = "backedup" /\ trace' = Append(trace, "BackedUp")
    /\ UNCHANGED << exitCode, needle, newname, out, locals, runs, orig, scan,
                    fsStart, prev >>

(***************************************************************************)
(* main, line 125: outpath.write_bytes(bytes(patched)) opens the file for  *)
(* writing, which creates or truncates it, then writes the buffer.         *)
(***************************************************************************)
WriteOpen ==
    /\ pc = "backedup"
    /\ fs' = [fs EXCEPT ![outpath] = File(<<>>)]
    /\ pc' = "writing"
    /\ UNCHANGED << exitCode, needle, newname, out, locals, trace, runs, orig, scan,
                    fsStart, prev, bakCopies >>

WriteData ==
    /\ pc = "writing"
    /\ fs' = [fs EXCEPT ![outpath] = File(patched)]
    /\ pc' = "written" /\ trace' = Append(trace, "Written")
    /\ UNCHANGED << exitCode, needle, newname, out, locals, runs, orig, scan,
                    fsStart, prev, bakCopies >>

\* The process is killed by a signal, at any statement of main after the
\* read: between two statements the files stay as they are; inside
\* shutil.copy2 the backup holds a part or all of the firmware; inside
\* write_bytes the output holds a part or all of the buffer.
Kill ==
    /\ pc \in { "loaded", "planned", "validated", "patched", "backedup",
                "writing", "written" }
    /\ \/ UNCHANGED << fs, bakCopies >>
       \/ /\ pc = "patched"
          /\ ~fs[BAK].exists
          /\ \E k \in 0..Len(fs[FW].bytes) :
                fs' = [fs EXCEPT ![BAK] = File(SubSeq(fs[FW].bytes, 1, k))]
          /\ bakCopies' = bakCopies + 1
       \/ /\ pc = "writing"
          /\ \E k \in 0..Len(patched) :
                fs' = [fs EXCEPT ![outpath] = File(SubSeq(patched, 1, k))]
          /\ UNCHANGED bakCopies
    /\ pc' = "killed"
    /\ UNCHANGED << exitCode, needle, newname, out, locals, trace, runs, orig, scan,
                    fsStart, prev >>

(***************************************************************************)
(* I/O failures.  shutil.copy2 (line 122) or write_bytes (line 125) raises *)
(* OSError; nothing catches it, the interpreter exits with status 1.  A    *)
(* copy that fails can leave no backup file, a part of it, or all of it    *)
(* (copystat or close failing after the copy); a write can fail when the   *)
(* file is opened, or later, leaving a part or all of the buffer (close    *)
(* failing after the write).                                               *)
(***************************************************************************)
BackupFail ==
    /\ pc = "patched"
    /\ ~fs[BAK].exists
    /\ \/ UNCHANGED << fs, bakCopies >>
       \/ /\ \E k \in 0..Len(fs[FW].bytes) :
                fs' = [fs EXCEPT ![BAK] = File(SubSeq(fs[FW].bytes, 1, k))]
          /\ bakCopies' = bakCopies + 1
    /\ pc' = "failed" /\ exitCode' = 1
    /\ UNCHANGED << needle, newname, out, locals, trace, runs, orig, scan, fsStart,
                    prev >>

WriteOpenFail ==
    /\ pc = "backedup"
    /\ pc' = "failed" /\ exitCode' = 1
    /\ UNCHANGED << fs, needle, newname, out, locals, trace, runs, orig, scan,
                    fsStart, prev, bakCopies >>

WriteDataFail ==
    /\ pc = "writing"
    /\ \E k \in 0..Len(patched) :
          fs' = [fs EXCEPT ![outpath] = File(SubSeq(patched, 1, k))]
    /\ pc' = "failed" /\ exitCode' = 1
    /\ UNCHANGED << needle, newname, out, locals, trace, runs, orig, scan, fsStart,
                    prev, bakCopies >>

(***************************************************************************)
(* main, lines 126-139: report and return.                                 *)
(***************************************************************************)
Finish ==
    /\ pc = "written"
    /\ pc' = "done" /\ exitCode' = 0 /\ trace' = Append(trace, "Done")
    /\ prev' = [ok |-> TRUE, run |-> runs, needle |-> needle, name |-> newname,
                output |-> patched, origin |-> origin]
    /\ UNCHANGED << fs, needle, newname, out, locals, runs, orig, scan, fsStart,
                    bakCopies >>

Invoke == \E n \in Needles, nm \in Names, o \in Outs : Start(n, nm, o, 1)
InvokeAgain ==
    \E n \in RunNeedles, nm \in RunNames, o \in Outs : Start(n, nm, o, MaxRuns)

Steps ==
    \/ Plan
    \/ Validate
    \/ Patch
    \/ Backup
    \/ WriteOpen
    \/ WriteData
    \/ Kill
    \/ BackupFail
    \/ WriteOpenFail
    \/ WriteDataFail
    \/ Finish

Next == Invoke \/ Steps
NextRuns == InvokeAgain \/ Steps

\* one invocation on any image
Spec == Init /\ [][Next]_vars
\* a sequence of invocations on the same firmware path
SpecRuns == InitRuns /\ [][NextRuns]_vars

(***************************************************************************)
(* The loops of the two scanners, one iteration a step.  find_all and      *)
(* find_adv_name_field are run one after the other on the data read at     *)
(* line 70; scan_i is the local i of the scanner that is running, and      *)
(* scan_offs the local offs of find_all.                                   *)
(***************************************************************************)
InitScan ==
    /\ \E d \in Images, n \in Needles :
          /\ data = d /\ needle = n
          /\ fs = [p \in Paths |-> IF p = FW THEN File(d) ELSE Absent]
    /\ pc = "find_all"
    /\ exitCode = -1
    /\ newname = <<>> /\ out = NoOut
    /\ occ = <<>> /\ adv = None /\ advCalled = FALSE
    /\ offset = 0 /\ capacity = 0 /\ origin = "none" /\ patched = <<>>
    /\ trace = <<"Loaded">>
    /\ runs = 1
    /\ orig = fs
    /\ fsStart = fs
    /\ prev = NoPrev
    /\ bakCopies = 0
    /\ scan_i = -1 /\ scan_offs = <<>>

\* find_all, lines 14-15: offs = []; i = data.find(needle)
FindAllStart ==
    /\ pc = "find_all"
    /\ scan_offs' = <<>>
    /\ scan_i' = bytes_find(data, needle, 0)
    /\ pc' = "find_all_loop"
    /\ UNCHANGED << fs, exitCode, needle, newname, out, locals, trace, runs,
                    orig, fsStart, prev, bakCopies >>

\* variant: the search restarts at i, the offset just found
FindAllIterSameOffset ==
    /\ pc = "find_all_loop"
    /\ scan_i # -1
    /\ scan_offs' = Append(scan_offs, scan_i)
    /\ scan_i' = bytes_find(data, needle, scan_i)
    /\ UNCHANGED << fs, pc, exitCode, needle, newname, out, locals, trace, runs,
                    orig, fsStart, prev, bakCopies >>

\* find_all, lines 16-18: one iteration of the while loop
FindAllIter ==
    /\ pc = "find_all_loop"
    /\ scan_i # -1
    /\ scan_offs' = Append(scan_offs, scan_i)
    /\ scan_i' = bytes_find(data, needle, scan_i + 1)
    /\ UNCHANGED << fs, pc, exitCode, needle, newname, out, locals, trace, runs,
                    orig, fsStart, prev, bakCopies >>

\* find_all, lines 16 and 19: the loop ends, return offs
FindAllReturn ==
    /\ pc = "find_all_loop"
    /\ scan_i = -1
    /\ occ' = scan_offs
    /\ pc' = "find_adv_name_field"
    /\ UNCHANGED << fs, exitCode, needle, newname, out, data, adv, advCalled,
                    offset, capacity, origin, patched, trace, runs, orig,
                    fsStart, prev, bakCopies, scan >>

\* find_adv_name_field, lines 29-30: i = data.find(prefix)
FindAdvStart ==
    /\ pc = "find_adv_name_field"
    /\ scan_i' = bytes_find(data, prefix, 0)
    /\ pc' = "find_adv_loop"
    /\ UNCHANGED << fs, exitCode, needle, newname, out, locals, trace, runs,
                    orig, fsStart, prev, bakCopies, scan_offs >>

\* variant: the search restarts at i, the offset of the rejected prefix
FindAdvIterSameOffset ==
    /\ pc = "find_adv_loop"
    /\ scan_i # -1
    /\ ~AdvAccepts(data, scan_i + Len(prefix))
    /\ scan_i' = bytes_find(data, prefix, scan_i)
    /\ UNCHANGED << fs, pc, exitCode, needle, newname, out, locals, trace, runs,
                    orig, fsStart, prev, bakCopies, scan_offs >>

\* find_adv_name_field, lines 31-41: an iteration that rejects the prefix at i
FindAdvIter ==
    /\ pc = "find_adv_loop"
    /\ scan_i # -1
    /\ ~AdvAccepts(data, scan_i + Len(prefix))
    /\ scan_i' = bytes_find(data, prefix, scan_i + 1)
    /\ UNCHANGED << fs, pc, exitCode, needle, newname, out, locals, trace, runs,
                    orig, fsStart, prev, bakCopies, scan_offs >>

\* find_adv_name_field, lines 38-40 and 42: return the field, or None
FindAdvReturn ==
    /\ pc = "find_adv_loop"
    /\ LET pos == scan_i + Len(prefix)
       IN  IF scan_i = -1
           THEN adv' = None
           ELSE /\ AdvAccepts(data, pos)
                /\ adv' = <<pos + 2, data[pos + 1] - 1>>
    /\ advCalled' = TRUE
    /\ pc' = "scanned"
    /\ UNCHANGED << fs, exitCode, needle, newname, out, data, occ, offset,
                    capacity, origin, patched, trace, runs, orig, fsStart,
                    prev, bakCopies, scan >>

NextScan ==
    \/ FindAllStart
    \/ FindAllIter
    \/ FindAllReturn
    \/ FindAdvStart
    \/ FindAdvIter
    \/ FindAdvReturn

\* the two scanners on any image and any needle
SpecScan == InitScan /\ [][NextScan]_vars
\* the interpreter runs the next statement of a scanner that has not returned
FairScan == SpecScan /\ WF_vars(NextScan)

(***************************************************************************)
(* Notions the properties are stated with.  They are written from the      *)
(* statements, not from the scanners above.                                *)
(***************************************************************************)
Succeeded == pc = "done" /\ exitCode = 0
Output == fs[outpath].bytes

Zeros(n) == [k \in 1..n |-> 0]

\* the offsets at which sub occurs in d
Occurrences(d, sub) ==
    { i \in 0..Len(d) :
        /\ i + Len(sub) <= Len(d)
        /\ SubSeq(d, i + 1, i + Len(sub)) = sub }

\* the prefix occurs at i and the field after it is a Complete Local Name
AcceptedAt(d, i) ==
    /\ i + 12 <= Len(d)
    /\ SubSeq(d, i + 1, i + 10) = prefix
    /\ d[i + 12] = 9
    /\ d[i + 11] >= 1
    /\ i + 12 + (d[i + 11] - 1) <= Len(d)

Accepted(d) == { i \in 0..Len(d) : AcceptedAt(d, i) }

\* an invocation that found the firmware file and has read it
Reading == pc # "idle" /\ exitCode # 2

\* the run has got past the step named
Did(step) == \E j \in 1..Len(trace) : trace[j] = step

\* the run was killed before the target was chosen
KilledBeforePlan == pc = "killed" /\ ~Did("Planned")

\* capacity of the chosen target: len(needle), or L - 1 with L the length byte
TargetCapacity ==
    IF origin = "ExactNeedle" THEN Len(needle) ELSE data[offset - 1] - 1

(***************************************************************************)
(* C1  Bounds containment: after a successful patch from either branch,    *)
(* every byte of the output image at an index outside                      *)
(* [offset, offset + capacity) equals the byte of the input image at the   *)
(* same index.                                                             *)
(***************************************************************************)
C1_BoundsContainment ==
    Succeeded =>
        \A i \in 0..(Len(Output) - 1) :
            (i < offset \/ i >= offset + TargetCapacity)
                => (i < Len(data) /\ Output[i + 1] = data[i + 1])

C1_Witness ==
    /\ Succeeded
    /\ origin = "AdvertisingField"
    /\ Len(newname) = capacity
    /\ offset + capacity < Len(data)
    /\ data[offset + capacity + 1] # 0
    /\ Output # data

(***************************************************************************)
(* C2  Capacity enforcement: a name longer than the capacity of the chosen *)
(* target ends the run with exit code 4; the firmware file and the output  *)
(* path are not written and no backup file is created.                     *)
(***************************************************************************)
C2_CapacityEnforcement ==
    (Reading /\ origin # "none" /\ Len(newname) > TargetCapacity) =>
        /\ pc \in { "planned", "done", "killed" }
        /\ pc = "done" => exitCode = 4
        /\ fs = fsStart

C2_Witness ==
    /\ pc = "done" /\ exitCode = 4
    /\ origin = "AdvertisingField"
    /\ Len(newname) = TargetCapacity + 1
    /\ ~fs[BAK].exists

(***************************************************************************)
(* C3  Pattern not found: with no occurrence of the needle and no prefix   *)
(* occurrence that yields an accepted name field, the run ends with exit   *)
(* code 3, no file is written and no backup file is created.               *)
(***************************************************************************)
C3_PatternNotFound ==
    (Reading /\ Occurrences(data, needle) = {} /\ Accepted(data) = {}) =>
        /\ pc \in { "loaded", "done", "killed" }
        /\ pc = "done" => exitCode = 3
        /\ fs = fsStart

C3_Witness ==
    /\ pc = "done" /\ exitCode = 3
    /\ Occurrences(data, prefix) # {}
    /\ ~fs[BAK].exists

(***************************************************************************)
(* C4  Fallback ordering: when the needle occurs in the image, the         *)
(* advertising-field locator is not called and the target is the first     *)
(* needle occurrence with capacity len(needle), even if an accepted field  *)
(* exists; a name longer than the needle then fails with exit code 4 and   *)
(* leaves the files untouched, even if it would fit the field.             *)
(***************************************************************************)
C4_FallbackOrdering ==
    (Reading /\ pc # "loaded" /\ ~KilledBeforePlan
        /\ Occurrences(data, needle) # {}) =>
        /\ ~advCalled
        /\ adv = None
        /\ origin = "ExactNeedle"
        /\ offset = SetMin(Occurrences(data, needle))
        /\ capacity = Len(needle)
        /\ Len(newname) > Len(needle) =>
              /\ pc \in { "planned", "done", "killed" }
              /\ pc = "done" => exitCode = 4
              /\ fs = fsStart

C4_Witness ==
    /\ pc = "done" /\ exitCode = 4
    /\ Occurrences(data, needle) # {}
    /\ Accepted(data) # {}
    /\ \E i \in Accepted(data) : Len(newname) <= data[i + 11] - 1

(***************************************************************************)
(* C5  Round trip, needle branch: after a successful patch of an image     *)
(* that contains the needle, the output bytes at                           *)
(* [offset, offset + len(needle)), offset being the first occurrence, are  *)
(* the name followed by 0x00 bytes up to the length of the needle.         *)
(***************************************************************************)
C5_RoundTripNeedle ==
    (Succeeded /\ Occurrences(data, needle) # {}) =>
        LET first == SetMin(Occurrences(data, needle))
        IN  /\ first + Len(needle) <= Len(Output)
            /\ SubSeq(Output, first + 1, first + Len(needle))
                  = newname \o Zeros(Len(needle) - Len(newname))

C5_Witness ==
    /\ Succeeded
    /\ Cardinality(Occurrences(data, needle)) >= 2
    /\ Len(newname) >= 1
    /\ Len(newname) < Len(needle)
    /\ data[SetMin(Occurrences(data, needle)) + Len(newname) + 1] # 0

(***************************************************************************)
(* C6  Advertising-field scenario.  As stated: for an image without the    *)
(* needle that contains the prefix, length byte 06, type byte 09 and the   *)
(* six bytes 'OLDNAM', patching with 'NEW' exits 0, leaves the length byte *)
(* at 6 and turns the six bytes into 4E 45 57 00 00 00.                    *)
(***************************************************************************)
ScenarioField == prefix \o <<6, 9>> \o OLDNAM

InScenario ==
    /\ Reading
    /\ Occurrences(data, needle) = {}
    /\ Occurrences(data, ScenarioField) # {}
    /\ newname = NameNEW

C6_AsStated ==
    (InScenario /\ pc = "done") =>
        LET k == SetMin(Occurrences(data, ScenarioField))
        IN  /\ exitCode = 0
            /\ Output[k + 11] = 6
            /\ SubSeq(Output, k + 13, k + 18) = NameNEW \o <<0, 0, 0>>

(***************************************************************************)
(* C6, amended: in that scenario, when no name field is accepted at a      *)
(* lower offset than the field of the scenario, the run exits 0, leaves    *)
(* the length byte at 6 and the type byte at 09, and turns the first five  *)
(* content bytes 'OLDNA' into 'NEW' followed by two 0x00 bytes; the sixth  *)
(* byte 'M' is outside the field (capacity 6 - 1 = 5) and stays:           *)
(* 4E 45 57 00 00 4D.  (A field accepted at a lower offset is the target   *)
(* instead: the run exits 4 when 'NEW' does not fit it.)                   *)
(***************************************************************************)
\* the field of the scenario is the first accepted name field of the image
ScenarioFieldFirst ==
    \A i \in Accepted(data) : i >= SetMin(Occurrences(data, ScenarioField))

C6_Amended ==
    (InScenario /\ ScenarioFieldFirst /\ pc = "done") =>
        LET k == SetMin(Occurrences(data, ScenarioField))
        IN  /\ exitCode = 0
            /\ Output[k + 11] = 6
            /\ Output[k + 12] = 9
            /\ SubSeq(Output, k + 13, k + 18) = NameNEW \o <<0, 0, 77>>

C6_Witness ==
    /\ InScenario
    /\ ScenarioFieldFirst
    /\ Succeeded
    /\ out = ALT
    /\ fs[FW].bytes = data
    /\ Output # data

(***************************************************************************)
(* C7  Idempotence.  As stated: when a first patch succeeded, running the  *)
(* patcher again with the same needle and name on the patched image        *)
(* succeeds and produces output identical to that of the first patch.      *)
(***************************************************************************)
\* the current invocation repeats the last successful one on its output
Repeating ==
    /\ Reading
    /\ prev.ok /\ prev.run < runs
    /\ needle = prev.needle /\ newname = prev.name
    /\ data = prev.output

C7_AsStated ==
    Repeating =>
        /\ pc # "done"
        /\ pc = "written" => Output = prev.output

(***************************************************************************)
(* C7, amended: the second run succeeds with output identical to the first *)
(* when the first patch went through the advertising-field fallback and    *)
(* its output contains no occurrence of the needle, or when the name       *)
(* equals the needle.  (Otherwise the second run may patch another needle   *)
(* occurrence or the advertising field, or exit 3 or 4.)                   *)
(***************************************************************************)
SameTargetAgain ==
    \/ prev.origin = "AdvertisingField" /\ Occurrences(prev.output, prev.needle) = {}
    \/ prev.name = prev.needle

C7_Amended ==
    (Repeating /\ SameTargetAgain) =>
        /\ pc # "done"
        /\ pc \in { "patched", "backedup", "writing", "written" }
              => patched = prev.output
        /\ pc = "written" => Output = prev.output

C7_Witness ==
    /\ Repeating
    /\ pc = "written"
    /\ prev.origin = "AdvertisingField"
    /\ Occurrences(prev.output, prev.needle) = {}
    /\ prev.output # orig[FW].bytes
    /\ Output = prev.output

(***************************************************************************)
(* C8  Backup immutability: across any sequence of invocations on the same *)
(* firmware path, with any --out, the backup file is created at most once  *)
(* and, once it exists, no step changes its bytes.                         *)
(***************************************************************************)
C8_BackupImmutable ==
    [][ /\ bakCopies' <= 1
        /\ fs[BAK].exists => fs'[BAK] = fs[BAK] ]_vars

(***************************************************************************)
(* C9  Backup before mutation: in every reachable state, a crash in the    *)
(* middle of the output write included, if the firmware file differs from  *)
(* what it was before the first invocation then the backup file exists,    *)
(* and when no backup existed before the first invocation it holds the     *)
(* original bytes.                                                         *)
(***************************************************************************)
C9_BackupBeforeMutation ==
    fs[FW] # orig[FW] =>
        /\ fs[BAK].exists
        /\ ~orig[BAK].exists => fs[BAK].bytes = orig[FW].bytes

(***************************************************************************)
(* C10  Step ordering.  As stated: a successful invocation passes through  *)
(* Loaded, Planned, Validated, Backed-up, Patched, Written, Done in this   *)
(* order, the backup step before the buffer is patched.                    *)
(***************************************************************************)
IsPrefix(a, b) == Len(a) <= Len(b) /\ SubSeq(b, 1, Len(a)) = a

SpecOrder ==
    << "Loaded", "Planned", "Validated", "BackedUp", "Patched", "Written", "Done" >>

C10_AsStated == Succeeded => trace = SpecOrder

(***************************************************************************)
(* C10, amended: a successful invocation passes through Loaded, Planned,   *)
(* Validated, Patched, Backed-up, Written, Done in exactly this order with *)
(* no step repeated or revisited: the buffer is patched before the backup  *)
(* step, and the backup step happens before the output file is written.    *)
(***************************************************************************)
CodeOrder ==
    << "Loaded", "Planned", "Validated", "Patched", "BackedUp", "Written", "Done" >>

C10_Amended ==
    /\ IsPrefix(trace, CodeOrder)
    /\ Succeeded => trace = CodeOrder
    /\ fs # fsStart => IsPrefix(SubSeq(CodeOrder, 1, 4), trace)

C10_Witness ==
    /\ Succeeded
    /\ bakCopies = 1
    /\ fs[BAK].bytes = data
    /\ patched # data
    /\ fs[FW].bytes = patched

(***************************************************************************)
(* C11  Exit-code precedence: exit 2 if the firmware path does not exist   *)
(* (nothing is read, written or backed up); otherwise exit 3 if neither    *)
(* the needle nor an accepted field is found; otherwise exit 4 if the name *)
(* is longer than the capacity; otherwise exit 0.  The three failures are  *)
(* decided before the backup and before any write.                         *)
(***************************************************************************)
\* the capacity the statement speaks of, for an image d and a needle n
StatedCapacity(d, n) ==
    IF Occurrences(d, n) # {} THEN Len(n)
    ELSE d[SetMin(Accepted(d)) + 11] - 1

StatedExit(f, n, nm) ==
    IF ~f.exists THEN 2
    ELSE IF Occurrences(f.bytes, n) = {} /\ Accepted(f.bytes) = {} THEN 3
    ELSE IF Len(nm) > StatedCapacity(f.bytes, n) THEN 4
    ELSE 0

C11_ExitPrecedence ==
    /\ pc = "done" => exitCode = StatedExit(fsStart[FW], needle, newname)
    /\ (pc # "idle" /\ StatedExit(fsStart[FW], needle, newname) # 0) =>
          /\ fs = fsStart
          /\ pc \in { "loaded", "planned", "done", "killed" }
    /\ (pc = "done" /\ exitCode = 2) => (data = <<>> /\ trace = <<>>)

C11_Witness ==
    /\ pc = "done" /\ exitCode = 2
    /\ runs = 1
    /\ ~fs[FW].exists /\ ~fs[BAK].exists /\ ~fs[ALT].exists

(***************************************************************************)
(* C12  find_all returns, strictly ascending and without duplicates,       *)
(* exactly the offsets at which the needle occurs, overlapping occurrences *)
(* included; the empty list when there is none; data is not modified.      *)
(***************************************************************************)
Planning == Reading /\ pc # "loaded" /\ ~KilledBeforePlan

C12_FindAll ==
    Planning =>
        /\ \A j \in 1..(Len(occ) - 1) : occ[j] < occ[j + 1]
        /\ { occ[j] : j \in 1..Len(occ) } = Occurrences(data, needle)
        /\ data = fsStart[FW].bytes

C12_Witness ==
    /\ Planning
    /\ Len(needle) = 2
    /\ Len(occ) >= 2
    /\ occ[2] = occ[1] + 1

(***************************************************************************)
(* C13  find_adv_name_field returns (pos + 2, L - 1) for the first prefix  *)
(* occurrence i, pos = i + 10, that passes the checks; earlier occurrences *)
(* that fail them are skipped; it returns None exactly when no occurrence  *)
(* passes.                                                                 *)
(***************************************************************************)
C13_FindAdvNameField ==
    advCalled =>
        IF Accepted(data) = {} THEN adv = None
        ELSE LET i == SetMin(Accepted(data))
             IN  adv = <<i + 12, data[i + 11] - 1>>

C13_Witness ==
    /\ advCalled
    /\ adv # None
    /\ \E i \in Occurrences(data, prefix) : i + 12 < adv[1]

(***************************************************************************)
(* C14  First-occurrence patching.  As stated: when the needle occurs more *)
(* than once, a successful patch changes only the lowest-offset occurrence *)
(* and every other needle occurrence is byte-identical in the output.      *)
(***************************************************************************)
FirstOcc == SetMin(Occurrences(data, needle))

C14_AsStated ==
    (Succeeded /\ Cardinality(Occurrences(data, needle)) > 1) =>
        \A i \in Occurrences(data, needle) \ { FirstOcc } :
            SubSeq(Output, i + 1, i + Len(needle)) = needle

(***************************************************************************)
(* C14, amended: when the needle occurs more than once, a successful patch *)
(* rewrites only the bytes of the lowest-offset occurrence; every other    *)
(* occurrence that does not overlap it (offset >= first + len(needle)) is  *)
(* byte-identical in the output.  An occurrence that overlaps the first    *)
(* one shares bytes with it and may be changed with it.                    *)
(***************************************************************************)
C14_Amended ==
    (Succeeded /\ Cardinality(Occurrences(data, needle)) > 1) =>
        /\ \A i \in Occurrences(data, needle) :
              i >= FirstOcc + Len(needle) =>
                  SubSeq(Output, i + 1, i + Len(needle)) = needle
        /\ \A j \in 1..Len(data) :
              (j <= FirstOcc \/ j > FirstOcc + Len(needle)) =>
                  (j <= Len(Output) /\ Output[j] = data[j])

C14_Witness ==
    /\ Succeeded
    /\ Len(needle) >= 1
    /\ \E i \in Occurrences(data, needle) : i >= FirstOcc + Len(needle)
    /\ SubSeq(Output, FirstOcc + 1, FirstOcc + Len(needle)) # needle

(***************************************************************************)
(* C15  Length preservation: after a successful patch, from either branch  *)
(* and for every name length from 0 to the capacity, the output image has  *)
(* the same length as the input image.                                     *)
(***************************************************************************)
C15_LengthPreserved ==
    /\ pc \in { "patched", "backedup", "writing", "written" }
          => Len(patched) = Len(data)
    /\ pc = "written" => Len(Output) = Len(data)
    /\ Succeeded => (Len(patched) = Len(data) /\ Len(Output) = Len(data))

C15_Witness ==
    /\ Succeeded
    /\ origin = "AdvertisingField"
    /\ Len(newname) = 0
    /\ capacity >= 2
    /\ Output # data
    /\ Len(Output) = Len(data)

(***************************************************************************)
(* C16  I/O failure: if the output write fails after the backup step has   *)
(* created the backup file, the invocation ends in failure and the backup  *)
(* file still exists with the bytes of the original firmware file; if the  *)
(* backup copy itself fails, the output path is never written.  (What a    *)
(* failed copy leaves at the backup path is not counted as a write of the  *)
(* output path.)                                                           *)
(***************************************************************************)
C16_IOFailure ==
    /\ (pc = "failed" /\ Did("BackedUp") /\ ~fsStart[BAK].exists) =>
          /\ exitCode # 0
          /\ fs[BAK] = File(fsStart[FW].bytes)
    /\ (pc = "failed" /\ ~Did("BackedUp")) =>
          /\ ~Did("Written")
          /\ outpath # BAK => fs[outpath] = fsStart[outpath]

(***************************************************************************)
(* C17  Target bounds: every target the program patches, from the first    *)
(* needle occurrence (capacity len(needle)) or from find_adv_name_field    *)
(* (capacity L - 1), has offset >= 0 and offset + capacity <= len(image).  *)
(***************************************************************************)
C17_TargetBounds ==
    origin # "none" =>
        /\ capacity = TargetCapacity
        /\ offset >= 0
        /\ offset + capacity <= Len(data)

C17_Witness ==
    /\ Succeeded
    /\ origin = "AdvertisingField"
    /\ capacity >= 2
    /\ offset + capacity = Len(data)
    /\ Output # data

(***************************************************************************)
(* C18  Target capacity.  As stated: every target the program accepts has  *)
(* capacity >= 1, an advertising field whose length byte is 1 and an empty *)
(* needle included.                                                        *)
(***************************************************************************)
C18_AsStated == origin # "none" => capacity >= 1

(***************************************************************************)
(* C18, amended: every target the program accepts has capacity >= 0.  The  *)
(* capacity is 0 exactly for an advertising field whose length byte is 1   *)
(* and for an empty needle; such a target is accepted, and only the empty  *)
(* name fits it (any other name exits 4).                                  *)
(***************************************************************************)
C18_Amended ==
    origin # "none" =>
        /\ capacity >= 0
        /\ capacity = 0 <=>
              \/ origin = "ExactNeedle" /\ needle = <<>>
              \/ origin = "AdvertisingField" /\ data[offset - 1] = 1
        /\ (capacity = 0 /\ pc = "done") =>
              exitCode = (IF newname = <<>> THEN 0 ELSE 4)

C18_Witness ==
    /\ Succeeded
    /\ origin = "AdvertisingField"
    /\ capacity = 0
    /\ data[offset - 1] = 1
    /\ Output = data

(***************************************************************************)
(* C19  Fallback padding: in the fallback branch, for the accepted field   *)
(* (offset, capacity = L - 1) and a name that fits, the output bytes at    *)
(* [offset, offset + capacity) are the name followed by 0x00 bytes, and    *)
(* the length byte and the type byte 0x09 before the field are unchanged.  *)
(***************************************************************************)
C19_FallbackPadding ==
    (Succeeded /\ Occurrences(data, needle) = {}) =>
        LET i == SetMin(Accepted(data))
            cap == data[i + 11] - 1
        IN  /\ i + 12 + cap <= Len(Output)
            /\ SubSeq(Output, i + 13, i + 12 + cap)
                  = newname \o Zeros(cap - Len(newname))
            /\ Output[i + 11] = data[i + 11]
            /\ Output[i + 12] = 9

C19_Witness ==
    /\ Succeeded
    /\ Occurrences(data, needle) = {}
    /\ origin = "AdvertisingField"
    /\ Len(newname) >= 1
    /\ Len(newname) < capacity
    /\ data[offset + capacity] # 0

(***************************************************************************)
(* C20  Output path frame: with --out naming a path other than the         *)
(* firmware path, a successful invocation writes the patched image to that *)
(* path only, leaves the firmware file unchanged, and still creates the    *)
(* backup file if it did not exist; without --out the patched image is     *)
(* written to the firmware path.                                           *)
(***************************************************************************)
\* the patched image the statements describe, for image d, needle n, name nm
StatedOffset(d, n) ==
    IF Occurrences(d, n) # {} THEN SetMin(Occurrences(d, n))
    ELSE SetMin(Accepted(d)) + 12

StatedImage(d, n, nm) ==
    LET off == StatedOffset(d, n)
        cap == StatedCapacity(d, n)
    IN  [j \in 1..Len(d) |->
            IF j <= off \/ j > off + cap THEN d[j]
            ELSE IF j - off <= Len(nm) THEN nm[j - off] ELSE 0]

C20_OutputPath ==
    Succeeded =>
        LET image == File(StatedImage(data, needle, newname))
        IN  IF out = NoOut
            THEN /\ fs[FW] = image
                 /\ fs[ALT] = fsStart[ALT]
            ELSE /\ fs[out] = image
                 /\ fs[FW] = fsStart[FW]
                 /\ fs[BAK].exists
                 /\ out # BAK =>
                       fs[BAK] = (IF fsStart[BAK].exists THEN fsStart[BAK]
                                  ELSE fsStart[FW])
                 /\ \A p \in Paths \ { out, BAK } : fs[p] = fsStart[p]

C20_Witness ==
    /\ Succeeded
    /\ out = ALT
    /\ ~fsStart[BAK].exists
    /\ fs[BAK] = fs[FW]
    /\ fs[ALT] # fs[FW]
    /\ fs[FW] = orig[FW]

(***************************************************************************)
(* The scanners, one iteration a step.                                     *)
(***************************************************************************)
\* the scanners have returned what find_all and find_adv_name_field compute
ScanAgrees ==
    pc = "scanned" =>
        /\ occ = find_all(data, needle)
        /\ adv = find_adv_name_field(data)

\* an iteration of a scanner loop that stays in the loop
Iterates == pc \in { "find_all_loop", "find_adv_loop" } /\ pc' = pc

\* C21: find_all and find_adv_name_field terminate on every image and every
\* needle, the empty needle and the images made of overlapping matches
\* included: both scanners return, every iteration of their loops restarts
\* the search at a strictly greater offset or ends the loop, and find_all
\* never holds more offsets than the image has positions.
C21_ScannerTermination ==
    /\ <>(pc = "scanned")
    /\ [][Iterates => (scan_i' > scan_i \/ scan_i' = -1)]_vars
    /\ [](Len(scan_offs) <= Len(data) + 1)

\* both scanners have returned, find_all after iterating over matches that
\* overlap, find_adv_name_field after the last position of the image
C21_Witness ==
    /\ pc = "scanned"
    /\ \E k \in 1..(Len(occ) - 1) : occ[k + 1] - occ[k] < Len(needle)
    /\ Len(occ) = Len(data) - Len(needle) + 1
    /\ adv = None

\* both scanners have returned on the empty needle, with len(data) + 1 offsets
ScannedEmptyNeedle ==
    /\ pc = "scanned"
    /\ needle = <<>>
    /\ Len(data) = MaxLen
    /\ occ = [k \in 1..(Len(data) + 1) |-> k - 1]

\* find_adv_name_field has returned a field after rejecting an earlier prefix
ScannedSecondPrefix ==
    /\ pc = "scanned"
    /\ adv # None
    /\ adv[1] > bytes_find(data, prefix, 0) + Len(prefix) + 2
====
